---- MODULE Spec2Model ----
(***************************************************************************)
(* Craigslist SMM jobs parser: the multi-section aggregator of             *)
(* azalia_search.py (main) and the spider of                               *)
(* craigslist_jobs/spiders/chicago_jobs.py (parse, parse_job_detail).      *)
(*                                                                         *)
(* Three specifications share the variables:                               *)
(*   Spec        main(): section loop, dedup by job_url, sort, write       *)
(*   SpecCrawl   one section crawl: parse / parse_job_detail / handle_error*)
(*   SpecDetail  parse_job_detail on one detail response (SpecShort: the   *)
(*               same action on descriptions around the 200-char limit)    *)
(***************************************************************************)
EXTENDS Integers, Sequences, FiniteSets, TLC

VARIABLES
    \* ---- azalia_search.main ----
    pc,           \* position in main(): "collect", "dedup", "sort", "write", "done";
                  \* "aborted" when an exception left main()
    si,           \* number of sections whose spider has been run (loop at :195)
    all_jobs,     \* main's all_jobs
    unique_jobs,  \* main's unique_jobs
    sort_raised,  \* TRUE when the sort at :211 raised and :212 swallowed it
    output,       \* the list handed to json.dump / csv writer, <<>> before the write
    section_end,  \* how the last call of run_spider_for_section ended, and the
                  \* number of listings it added to all_jobs
    \* ---- ChicagoJobsSpider ----
    spider,       \* the attributes __init__ sets: keywords, days, locations, max_jobs
    now,          \* datetime.now() of the run, in days
    response,     \* the detail response handed to parse_job_detail (the last one)
    result,       \* what parse_job_detail did with it: the return taken, the items yielded
    \* ---- one section crawl (the Scrapy engine around the spider) ----
    pending,      \* requests yielded by the spider and not yet served
    items,        \* the section's feed: (page, row) of each listing emitted, in order
    issued,       \* detail requests parse has yielded so far
    rows_seen,    \* rows enumerated on the result pages parsed so far
    last_page     \* the last result page parse handled, and what parse did with it

aggVars == <<pc, si, all_jobs, unique_jobs, sort_raised, output, section_end>>

detailVars == <<spider, now, response, result>>

crawlVars == <<pending, items, issued, rows_seen, last_page>>

vars == <<aggVars, detailVars, crawlVars>>

\* ------------------------------------------------------------------ bounds
MaxJobs == 4       \* listings over all section results of one run
MaxDate == 2       \* distinct posted_date strings (ranked in string order)
NumSections == 2   \* sections given on the command line
MaxSectionJobs == 2 \* listings in one section's feed
MaxDaysArg == 1    \* largest days value given with -a days=
NowDay == 10       \* the day of the run
MaxDelta == 1      \* word lengths tried on each side of the 200-character limit
MaxCeil == 2       \* largest max_jobs value given with -a max_jobs=
MaxListings == 4   \* rows the site serves over all result pages of the section
MaxPages == 2      \* result pages the site serves for the section

\* ------------------------------------------------------------ aggregator
\* posted_date of a record read back from the feed: JSON null (Python None) or a
\* string; a string is represented by its rank in Python's str ordering.
NoneDate == [none |-> TRUE, rank |-> 0]

StrDate(n) == [none |-> FALSE, rank |-> n]

PostedDates == {NoneDate} \cup {StrDate(n) : n \in 1..MaxDate}

\* The sort key: x.get("posted_date", ""). Every record the spider emits carries
\* the key (chicago_jobs.py:279), so the default "" is never taken.
SortKey(job) == job.posted_date

\* a < b raises TypeError when either operand is None (None < "x", "x" < None
\* and None < None are all unsupported).
CmpRaises(a, b) == a.none \/ b.none

KeyLt(a, b) == a.rank < b.rank

Reverse(s) == [i \in 1..Len(s) |-> s[Len(s) + 1 - i]]

\* listobject.c count_run: the length of the run starting at s[1], either
\* non-decreasing or strictly descending; a comparison may raise.
RECURSIVE RunEnd(_, _, _)
RunEnd(s, i, desc) ==
    IF i > Len(s) THEN [ok |-> TRUE, n |-> i - 1, desc |-> desc]
    ELSE IF CmpRaises(SortKey(s[i]), SortKey(s[i - 1]))
         THEN [ok |-> FALSE, n |-> 0, desc |-> desc]
    ELSE IF KeyLt(SortKey(s[i]), SortKey(s[i - 1])) = desc
         THEN RunEnd(s, i + 1, desc)
    ELSE [ok |-> TRUE, n |-> i - 1, desc |-> desc]

CountRun(s) ==
    IF CmpRaises(SortKey(s[2]), SortKey(s[1]))
    THEN [ok |-> FALSE, n |-> 0, desc |-> FALSE]
    ELSE RunEnd(s, 3, KeyLt(SortKey(s[2]), SortKey(s[1])))

\* binarysort's search for the pivot's slot in s[l..r-1]; 0 when a comparison
\* raises.
RECURSIVE BinSearch(_, _, _, _)
BinSearch(s, pivot, l, r) ==
    IF l >= r THEN l
    ELSE LET p == l + ((r - l) \div 2)
         IN IF CmpRaises(SortKey(pivot), SortKey(s[p])) THEN 0
            ELSE IF KeyLt(SortKey(pivot), SortKey(s[p]))
                 THEN BinSearch(s, pivot, l, p)
                 ELSE BinSearch(s, pivot, p + 1, r)

\* s with s[i] moved down to position pos (pos <= i).
InsertAt(s, i, pos) ==
    [k \in 1..Len(s) |->
        IF k < pos \/ k > i THEN s[k]
        ELSE IF k = pos THEN s[i]
        ELSE s[k - 1]]

\* binarysort from index i on; the elements placed before a raising comparison
\* stay where they were put.
RECURSIVE BinarySort(_, _)
BinarySort(s, i) ==
    IF i > Len(s) THEN [ok |-> TRUE, list |-> s]
    ELSE LET pos == BinSearch(s, s[i], 1, i)
         IN IF pos = 0 THEN [ok |-> FALSE, list |-> s]
            ELSE BinarySort(InsertAt(s, i, pos), i + 1)

ReversePrefix(s, n) == [k \in 1..Len(s) |-> IF k <= n THEN s[n + 1 - k] ELSE s[k]]

\* unique_jobs.sort(key=..., reverse=True) as CPython runs it on a list shorter
\* than 64 (one run, extended by binary insertion): the list is reversed, sorted
\* ascending and stably, and reversed again, also when a comparison raised.
\* ok is FALSE when the sort raised; list is what the list object then holds.
ListSortReverse(jobs) ==
    IF Len(jobs) < 2 THEN [ok |-> TRUE, list |-> jobs]
    ELSE LET r == Reverse(jobs)
             run == CountRun(r)
         IN IF ~run.ok THEN [ok |-> FALSE, list |-> jobs]
            ELSE LET r1 == IF run.desc THEN ReversePrefix(r, run.n) ELSE r
                     b == BinarySort(r1, run.n + 1)
                 IN [ok |-> b.ok, list |-> Reverse(b.list)]

SeenUrls(s) == {s[i].job_url : i \in 1..Len(s)}

\* main's dedup loop: keep a job when its job_url has not been seen.
RECURSIVE DedupFrom(_, _, _)
DedupFrom(jobs, i, acc) ==
    IF i > Len(jobs) THEN acc
    ELSE IF jobs[i].job_url \notin SeenUrls(acc)
         THEN DedupFrom(jobs, i + 1, Append(acc, jobs[i]))
         ELSE DedupFrom(jobs, i + 1, acc)

\* Dedup with the membership test made against the last kept job only.
DedupAdjacent(jobs) ==
    LET keep == {i \in 1..Len(jobs) : i = 1 \/ jobs[i].job_url # jobs[i - 1].job_url}
        F[i \in 0..Len(jobs)] ==
            IF i = 0 THEN <<>>
            ELSE IF i \in keep THEN Append(F[i - 1], jobs[i]) ELSE F[i - 1]
    IN F[Len(jobs)]

\* Dedup through a dict keyed by job_url: the last record of a url replaces the
\* first one in its slot.
DedupKeepLast(jobs) ==
    LET first == DedupFrom(jobs, 1, <<>>)
        last(u) == CHOOSE i \in 1..Len(jobs) :
                      /\ jobs[i].job_url = u
                      /\ \A j \in (i + 1)..Len(jobs) : jobs[j].job_url # u
    IN [k \in 1..Len(first) |-> jobs[last(first[k].job_url)]]

Dedup(jobs) == DedupFrom(jobs, 1, <<>>)

\* The records a section's feed may hold next. A job_url is an opaque key that
\* main only tests for equality, so urls are numbered in order of first
\* appearance in all_jobs.
NextJobs(prefix) ==
    {[job_url |-> u, posted_date |-> d] :
        u \in 1..(Cardinality(SeenUrls(prefix)) + 1), d \in PostedDates}

\* all_jobs after one more section: prefix extended by every list of at most k
\* records that run_spider_for_section may return.
RECURSIVE Extended(_, _)
Extended(prefix, k) ==
    IF k = 0 THEN {prefix}
    ELSE {prefix} \cup UNION {Extended(Append(prefix, j), k - 1) : j \in NextJobs(prefix)}


\* ---------------------------------------------------------------- strings
\* A Python str is the sequence of its characters.
Space == <<" ">>

LowerChar(c) ==
    CASE c = "S" -> "s" [] c = "M" -> "m" [] c = "R" -> "r"
      [] c = "C" -> "c" [] c = "V" -> "v" [] c = "B" -> "b"
      [] OTHER -> c

\* str.lower()
Lower(s) == [i \in 1..Len(s) |-> LowerChar(s[i])]

\* needle in hay
Contains(hay, needle) ==
    \E i \in 0..(Len(hay) - Len(needle)) :
        SubSeq(hay, i + 1, i + Len(needle)) = needle

\* str.strip(chars)
RECURSIVE StripChars(_, _)
StripChars(s, chars) ==
    IF s = <<>> THEN s
    ELSE IF Head(s) \in chars THEN StripChars(Tail(s), chars)
    ELSE IF s[Len(s)] \in chars THEN StripChars(SubSeq(s, 1, Len(s) - 1), chars)
    ELSE s

\* str.strip() (the whitespace of the modelled strings is the space)
Strip(s) == StripChars(s, {" "})

\* s[:n]
Take(s, n) == SubSeq(s, 1, IF Len(s) < n THEN Len(s) ELSE n)

\* s.rsplit(" ", 1)[0]: what precedes the last space, all of s when it has none
RSplitHead(s) ==
    LET spaces == {i \in 1..Len(s) : s[i] = " "}
    IN IF spaces = {} THEN s
       ELSE SubSeq(s, 1, (CHOOSE i \in spaces : \A j \in spaces : j <= i) - 1)

Word(c, n) == [i \in 1..n |-> c]

s_smm == <<"s", "m", "m">>
s_video == <<"v", "i", "d", "e", "o">>
s_tiktok == <<"t", "i", "k", "t", "o", "k">>
s_remote == <<"r", "e", "m", "o", "t", "e">>
s_NA == <<"N", "/", "A">>
s_blocked == <<"b", "l", "o", "c", "k", "e", "d">>
s_Social == <<"S", "o", "c", "i", "a", "l">>
s_Media == <<"M", "e", "d", "i", "a">>
s_media == <<"m", "e", "d", "i", "a">>
s_Video == <<"V", "i", "d", "e", "o">>
s_Chicago == <<"C", "h", "i", "c", "a", "g", "o">>
s_Remote == <<"R", "e", "m", "o", "t", "e">>
s_job == <<"j", "o", "b">>

\* ------------------------------------------------------ spider: __init__
DefaultDays == 7

DefaultMaxJobs == 100

DefaultKeywords == <<s_smm, s_video, s_tiktok>>

\* [x.strip().lower() for x in arg.split(",") if x.strip()]; the argument is
\* given as the list of its comma-separated pieces.
RECURSIVE CleanList(_)
CleanList(parts) ==
    IF parts = <<>> THEN <<>>
    ELSE IF Strip(Head(parts)) # <<>>
         THEN <<Lower(Strip(Head(parts)))>> \o CleanList(Tail(parts))
         ELSE CleanList(Tail(parts))

\* An argument of the spider: not given (None), or its text. kind "int" is a
\* text int() accepts, with value v; kind "bad" a text it rejects.
NoArg == [kind |-> "none", parts |-> <<>>, v |-> 0]

ListArg(parts) == [kind |-> "list", parts |-> parts, v |-> 0]

IntArg(n) == [kind |-> "int", parts |-> <<>>, v |-> n]

BadArg == [kind |-> "bad", parts |-> <<>>, v |-> 0]

\* self.keywords
InitKeywords(arg) ==
    IF arg.kind = "none" THEN DefaultKeywords ELSE CleanList(arg.parts)

\* self.days
InitDays(arg) == IF arg.kind = "int" THEN arg.v ELSE DefaultDays

\* self.locations; None (not given, or nothing left after cleaning) is the empty
\* list: the spider only tests its truth.
InitLocations(arg) ==
    IF arg.kind = "none" THEN <<>> ELSE CleanList(arg.parts)

\* self.max_jobs
InitMaxJobs(arg) == IF arg.kind = "int" THEN arg.v ELSE DefaultMaxJobs

SpiderInit(kw, days, locs, mj) ==
    [keywords |-> InitKeywords(kw),
     days |-> InitDays(days),
     locations |-> InitLocations(locs),
     max_jobs |-> InitMaxJobs(mj)]

\* ---------------------------------------------- spider: parse_job_detail
\* What _extract_posted_date returns: None, or a non-empty string. kind "iso"
\* is a string whose first 19 characters are a %Y-%m-%dT%H:%M:%S timestamp of
\* day t, followed by tail (a UTC offset, or nothing); kind "text" is any other
\* string.
NoDate == [kind |-> "none", t |-> 0, tail |-> ""]

TextDate == [kind |-> "text", t |-> 0, tail |-> ""]

IsoDate(t, tail) == [kind |-> "iso", t |-> t, tail |-> tail]

\* _is_job_recent with the strict comparison job_post_dt > cutoff.
IsJobRecentStrict(self, nowDay, raw) ==
    IF raw.kind = "iso" THEN raw.t > nowDay - self.days ELSE TRUE

\* _is_job_recent: a missing date is recent; strptime(raw[:19], ...) drops the
\* tail and gives a naive datetime, so now is datetime.now(); a ValueError is
\* recent.
IsJobRecent(self, nowDay, raw) ==
    IF raw.kind = "none" THEN TRUE
    ELSE IF raw.kind = "text" THEN TRUE
    ELSE raw.t >= nowDay - self.days

ShortLimit == 200

\* description[:200].rsplit(" ", 1)[0] if len(description) > 200 else description
ShortDescription(description) ==
    IF Len(description) > ShortLimit
    THEN RSplitHead(Take(description, ShortLimit))
    ELSE description

\* response.meta["title"] or span#titletextonly or h1.postingtitle or ""
ResolveTitle(resp) ==
    IF resp.meta.title # <<>> THEN resp.meta.title
    ELSE IF resp.titletextonly # <<>> THEN resp.titletextonly
    ELSE resp.postingtitle

\* The override of the location by a description that mentions remote work.
OverrideLocation(location, description) ==
    IF location \notin {s_remote, s_NA} /\ Contains(Lower(description), s_remote)
    THEN s_remote
    ELSE location

\* f"{title} {description}".lower()
TextToSearch(title, description) == Lower(title \o Space \o description)

\* The keyword stage with its guard inverted: it filters only when there are no
\* keywords.
KeywordStageInvertedGuard(self, title, description) ==
    \/ self.keywords # <<>>
    \/ \E i \in 1..Len(self.keywords) :
          Contains(TextToSearch(title, description), self.keywords[i])

\* The keyword stage without its guard on an empty keyword list.
KeywordStageUnguarded(self, title, description) ==
    \E i \in 1..Len(self.keywords) :
        Contains(TextToSearch(title, description), self.keywords[i])

\* TRUE when the keyword stage lets the candidate through.
KeywordStage(self, title, description) ==
    \/ self.keywords = <<>>
    \/ \E i \in 1..Len(self.keywords) :
          Contains(TextToSearch(title, description), self.keywords[i])

\* TRUE when the location stage lets the candidate through.
LocationStage(self, location) ==
    \/ self.locations = <<>>
    \/ \E i \in 1..Len(self.locations) :
          Contains(Lower(location), self.locations[i])

\* response.text: the page's markup, which holds the title, the posting body
\* and the rest of the page.
ResponseText(resp) ==
    resp.titletextonly \o Space \o resp.postingtitle \o Space
        \o resp.description \o Space \o resp.other

\* The block check without .lower().
BlockedCaseSensitive(resp) == Contains(ResponseText(resp), s_blocked) \/ resp.status # 200

\* "blocked" in response.text.lower() or response.status != 200
Blocked(resp) == Contains(Lower(ResponseText(resp)), s_blocked) \/ resp.status # 200

\* parse_job_detail: which return is taken ("blocked", "keyword", "date",
\* "location") or "emitted", and the items yielded.
ParseJobDetail(self, nowDay, resp) ==
    IF Blocked(resp) THEN [verdict |-> "blocked", items |-> <<>>]
    ELSE
    LET title == ResolveTitle(resp)
        job_url == resp.meta.url
        posted_date_raw == resp.posted_date
        description == resp.description
        short_description == ShortDescription(description)
        location == OverrideLocation(resp.meta.location, description)
    IN IF ~KeywordStage(self, title, description)
       THEN [verdict |-> "keyword", items |-> <<>>]
       ELSE IF ~IsJobRecent(self, nowDay, posted_date_raw)
       THEN [verdict |-> "date", items |-> <<>>]
       ELSE IF ~LocationStage(self, location)
       THEN [verdict |-> "location", items |-> <<>>]
       ELSE [verdict |-> "emitted",
             items |-> <<[title |-> title,
                          job_url |-> job_url,
                          posted_date |-> posted_date_raw,
                          location |-> location,
                          short_description |-> short_description]>>]

\* ---- the inputs of SpecDetail
KeywordArgs == {NoArg, ListArg(<<<<>>>>), ListArg(<<s_Social \o Space \o s_Media, Space \o s_tiktok>>)}

LocationArgs == {NoArg, ListArg(<<Space>>), ListArg(<<s_Chicago>>)}

DaysArgs == {NoArg, BadArg} \cup {IntArg(n) : n \in 1..MaxDaysArg}

DaysValues == {InitDays(a) : a \in DaysArgs}

\* Days on both sides of every cutoff, and the day of the run.
PostedDays == {NowDay} \cup UNION {{NowDay - d - 1, NowDay - d} : d \in DaysValues}

PostedDateValues ==
    {NoDate, TextDate} \cup {IsoDate(t, tail) : t \in PostedDays, tail \in {"", "-0500"}}

\* (meta title, span#titletextonly, h1.postingtitle); "" where the page has none
Titles == {<<s_Social, <<>>, <<>>>>, <<<<>>, s_Video, <<>>>>, <<<<>>, <<>>, s_job>>}

StubLocations == {s_NA, s_remote, s_Chicago}

Descriptions ==
    {<<>>,
     s_media \o Space \o s_job,
     s_Remote \o Space \o s_tiktok \o Space \o s_job,
     s_video \o Space \o s_job,
     <<"B">> \o Tail(s_blocked) \o Space \o s_job}

\* (status, the page's text outside the title and the posting body)
StatusAndRest == {<<200, <<>>>>, <<200, s_blocked>>, <<404, <<>>>>}

DetailResponses(descs) ==
    {[status |-> sr[1], other |-> sr[2],
      meta |-> [title |-> t[1], url |-> "u1", location |-> loc],
      titletextonly |-> t[2], postingtitle |-> t[3],
      posted_date |-> d, description |-> desc] :
        sr \in StatusAndRest, t \in Titles, loc \in StubLocations,
        d \in PostedDateValues, desc \in descs}

NoResult == [verdict |-> "pending", items |-> <<>>]

\* How a call of run_spider_for_section ended.
SectionEnd(outcome, n) == [outcome |-> outcome, n |-> n]

\* No section has been started yet.
NoSection == SectionEnd("none", 0)

AggIdle ==
    /\ pc = "idle"
    /\ si = 0
    /\ all_jobs = <<>>
    /\ unique_jobs = <<>>
    /\ sort_raised = FALSE
    /\ output = <<>>
    /\ section_end = NoSection

\* ------------------------------------------------------- spider: parse
\* A row of a result page: the title and href of its anchor and the text of
\* its location element; <<>> where the row has none. An href is absent, a path
\* ("rel") or an absolute url ("abs").
SiteOrigin == "https://chicago.craigslist.org"

NoHref == [kind |-> "none", origin |-> "", path |-> ""]

RelHref(path) == [kind |-> "rel", origin |-> "", path |-> path]

AbsHref(path) == [kind |-> "abs", origin |-> SiteOrigin, path |-> path]

\* _extract_job_basic_info: the stub of a row.
ExtractJobBasicInfo(row) ==
    LET location_clean == StripChars(row.location_raw, {" ", "(", ")"})
        location == IF Strip(location_clean) = <<>> THEN s_NA
                    ELSE IF Contains(Lower(location_clean), s_remote) THEN s_remote
                    ELSE location_clean
        url == IF row.href.kind = "rel" THEN AbsHref(row.href.path) ELSE row.href
    IN [title |-> row.title, url |-> url, location |-> location]

\* The slice that takes one row more than max_jobs.
RowSliceOneMore(self, job_rows) ==
    IF self.max_jobs > 0
    THEN SubSeq(job_rows, 1, IF Len(job_rows) < self.max_jobs + 1
                             THEN Len(job_rows) ELSE self.max_jobs + 1)
    ELSE job_rows

\* job_rows[:max_jobs] when max_jobs > 0, else job_rows
RowSlice(self, job_rows) ==
    IF self.max_jobs > 0
    THEN SubSeq(job_rows, 1, IF Len(job_rows) < self.max_jobs
                             THEN Len(job_rows) ELSE self.max_jobs)
    ELSE job_rows

ListRequest(p) == [kind |-> "list", page |-> p, row |-> 0, meta |-> <<>>]

DetailRequest(p, r, job_data) ==
    [kind |-> "detail", page |-> p, row |-> r, meta |-> <<job_data>>]

\* A parse that only looks at the status of the result page.
ParseRequestsStatusOnly(self, p, resp) ==
    IF resp.status # 200 THEN {}
    ELSE IF resp.rows = <<>> THEN {}
    ELSE LET row_iter == RowSlice(self, resp.rows)
         IN {DetailRequest(p, r, ExtractJobBasicInfo(row_iter[r])) :
                r \in {k \in 1..Len(row_iter) :
                          ExtractJobBasicInfo(row_iter[k]).url.kind # "none"}}
            \cup (IF resp.next THEN {ListRequest(p + 1)} ELSE {})

\* The requests parse yields for a result page p: one detail request for each
\* row of the slice whose stub has a url, and the next page when the page links
\* to one. Nothing for a blocked or non-200 page or a page without rows.
ParseRequests(self, p, resp) ==
    IF resp.blocked \/ resp.status # 200 THEN {}
    ELSE IF resp.rows = <<>> THEN {}
    ELSE LET row_iter == RowSlice(self, resp.rows)
         IN {DetailRequest(p, r, ExtractJobBasicInfo(row_iter[r])) :
                r \in {k \in 1..Len(row_iter) :
                          ExtractJobBasicInfo(row_iter[k]).url.kind # "none"}}
            \cup (IF resp.next THEN {ListRequest(p + 1)} ELSE {})

ParseOutcome(resp) ==
    IF resp.blocked \/ resp.status # 200 THEN "blocked"
    ELSE IF resp.rows = <<>> THEN "empty"
    ELSE "ok"

\* ---- the inputs of SpecCrawl
MaxJobsArgs == {NoArg} \cup {IntArg(n) : n \in 0..MaxCeil}

RowValues ==
    {[title |-> s_Video, href |-> h, location_raw |-> <<"(">> \o s_Chicago \o <<")">>] :
        h \in {NoHref, RelHref("/x.html"), AbsHref("/x.html")}}

RowSeqs(k) == UNION {[1..n -> RowValues] : n \in 0..k}

\* The result pages the site may answer with when at most k rows are left and
\* further pages exist (more): status, whether the text holds "blocked", the
\* rows, and whether a next link is found.
ListResponses(k, more) ==
    {[status |-> st, blocked |-> b, rows |-> rows, next |-> nx] :
        st \in {200, 404}, b \in BOOLEAN, rows \in RowSeqs(k),
        nx \in (IF more THEN BOOLEAN ELSE {FALSE})}

\* The detail pages the site may answer with: one that names a default keyword,
\* one with no description, one whose description names a keyword and says
\* "Blocked", and one that names a keyword and has "blocked" elsewhere on the
\* page.
CrawlDescriptions ==
    {s_video \o Space \o s_job, <<>>,
     <<"B">> \o Tail(s_blocked) \o Space \o s_video \o Space \o s_job}

CrawlDetailResponses(job_data) ==
    {[status |-> 200, other |-> <<>>,
      meta |-> job_data,
      titletextonly |-> <<>>, postingtitle |-> <<>>,
      posted_date |-> NoDate, description |-> desc] : desc \in CrawlDescriptions}
    \cup {[status |-> 200, other |-> s_blocked,
           meta |-> job_data,
           titletextonly |-> <<>>, postingtitle |-> <<>>,
           posted_date |-> NoDate, description |-> s_video \o Space \o s_job]}

\* No detail response has been handled yet.
NoResponse ==
    [status |-> 0, other |-> <<>>,
     meta |-> [title |-> <<>>, url |-> NoHref, location |-> <<>>],
     titletextonly |-> <<>>, postingtitle |-> <<>>,
     posted_date |-> NoDate, description |-> <<>>]

NoPage == [page |-> 0, has_url |-> <<>>, outcome |-> "none", issued |-> 0, followed |-> FALSE]

CrawlIdle ==
    /\ pending = {}
    /\ items = <<>>
    /\ issued = 0
    /\ rows_seen = 0
    /\ last_page = NoPage

\* start_requests: the section's first result page.
InitCrawl ==
    /\ AggIdle
    /\ now = NowDay
    /\ \E mj \in MaxJobsArgs : spider = SpiderInit(NoArg, NoArg, NoArg, mj)
    /\ response = NoResponse
    /\ result = NoResult
    /\ pending = {ListRequest(1)}
    /\ items = <<>>
    /\ issued = 0
    /\ rows_seen = 0
    /\ last_page = NoPage

Details(reqs) == {q \in reqs : q.kind = "detail"}

\* A result page is downloaded and handed to parse.
ParseList ==
    \E req \in pending :
        /\ req.kind = "list"
        /\ \E resp \in ListResponses(MaxListings - rows_seen, req.page < MaxPages) :
              LET reqs == ParseRequests(spider, req.page, resp)
              IN /\ pending' = (pending \ {req}) \cup reqs
                 /\ issued' = issued + Cardinality(Details(reqs))
                 /\ rows_seen' = rows_seen + Len(resp.rows)
                 /\ last_page' =
                       [page |-> req.page,
                        has_url |-> [r \in 1..Len(resp.rows) |->
                                        resp.rows[r].href.kind # "none"],
                        outcome |-> ParseOutcome(resp),
                        issued |-> Cardinality(Details(reqs)),
                        followed |-> ListRequest(req.page + 1) \in reqs]
        /\ UNCHANGED items
        /\ UNCHANGED <<aggVars, detailVars>>

\* A detail page is downloaded and handed to parse_job_detail.
ParseDetail ==
    \E req \in pending :
        /\ req.kind = "detail"
        /\ \E resp \in CrawlDetailResponses(req.meta[1]) :
              /\ response' = resp
              /\ result' = ParseJobDetail(spider, now, resp)
              /\ items' = IF result'.verdict = "emitted"
                          THEN Append(items, <<req.page, req.row>>)
                          ELSE items
        /\ pending' = pending \ {req}
        /\ UNCHANGED <<issued, rows_seen, last_page>>
        /\ UNCHANGED <<aggVars, spider, now>>

\* handle_error: a request fails in the downloader; the errback logs it.
HandleError ==
    \E req \in pending :
        /\ pending' = pending \ {req}
        /\ UNCHANGED <<items, issued, rows_seen, last_page>>
        /\ UNCHANGED <<aggVars, detailVars>>

NextCrawl ==
    \/ ParseList
    \/ ParseDetail
    \/ HandleError

SpecCrawl == InitCrawl /\ [][NextCrawl]_vars

InitDetail ==
    /\ AggIdle
    /\ CrawlIdle
    /\ now = NowDay
    /\ \E kw \in KeywordArgs, days \in DaysArgs, locs \in LocationArgs :
          spider = SpiderInit(kw, days, locs, NoArg)
    /\ response \in DetailResponses(Descriptions)
    /\ result = NoResult

\* The engine hands the detail response to parse_job_detail.
HandleDetail ==
    /\ result.verdict = "pending"
    /\ result' = ParseJobDetail(spider, now, response)
    /\ UNCHANGED <<spider, now, response>>
    /\ UNCHANGED <<aggVars, crawlVars>>

NextDetail == HandleDetail

SpecDetail == InitDetail /\ [][NextDetail]_vars

\* Descriptions of one to three words around the 200-character limit, joined by
\* one or two spaces.
WordLens == {1} \cup {ShortLimit + d : d \in (0 - MaxDelta)..MaxDelta}

LongDescriptions ==
    {Word("x", a) : a \in WordLens}
    \cup {Word("x", a) \o sep \o Word("y", b) :
            a \in WordLens, b \in WordLens, sep \in {Space, Space \o Space}}
    \cup {Word("x", a) \o Space \o Word("y", b) \o Space \o Word("z", c) :
            a \in WordLens, b \in WordLens, c \in {1, ShortLimit}}

InitShort ==
    /\ AggIdle
    /\ CrawlIdle
    /\ now = NowDay
    /\ spider = SpiderInit(ListArg(<<<<>>>>), NoArg, NoArg, NoArg)
    /\ response \in DetailResponses(LongDescriptions)
    /\ response.status = 200 /\ response.other = <<>>
    /\ response.meta.location = s_NA
    /\ response.posted_date = NoDate
    /\ response.meta.title = s_Social
    /\ result = NoResult

SpecShort == InitShort /\ [][NextDetail]_vars

\* An idle spider, for the specification of main() alone.
DetailIdle ==
    /\ spider = SpiderInit(NoArg, NoArg, NoArg, NoArg)
    /\ now = NowDay
    /\ response = <<>>
    /\ result = NoResult

Init ==
    /\ pc = "collect"
    /\ si = 0
    /\ all_jobs = <<>>
    /\ unique_jobs = <<>>
    /\ sort_raised = FALSE
    /\ output = <<>>
    /\ section_end = NoSection
    /\ DetailIdle
    /\ CrawlIdle

\* The ways run_spider_for_section returns [] after a failure: the crawl process
\* exits with a non-zero status (CalledProcessError, caught at :150), or the
\* result file cannot be opened or parsed (Exception, caught at :161).
CaughtFailures == {"exit_error", "no_result"}

\* One iteration of the section loop: the spider runs, its feed is read back,
\* all_jobs is extended with it.
RunSection ==
    /\ pc = "collect"
    /\ si < NumSections
    /\ LET room == MaxJobs - Len(all_jobs)
           k == IF room < MaxSectionJobs THEN room ELSE MaxSectionJobs
       IN all_jobs' \in Extended(all_jobs, k)
    /\ si' = si + 1
    /\ section_end' = SectionEnd("ok", Len(all_jobs') - Len(all_jobs))
    /\ UNCHANGED <<pc, unique_jobs, sort_raised, output>>
    /\ UNCHANGED <<detailVars, crawlVars>>

\* One iteration of the section loop in which run_spider_for_section returns []
\* from one of its two except clauses; all_jobs.extend([]) adds nothing.
SectionFails ==
    /\ pc = "collect"
    /\ si < NumSections
    /\ all_jobs' = all_jobs
    /\ \E f \in CaughtFailures :
          section_end' = SectionEnd(f, Len(all_jobs') - Len(all_jobs))
    /\ si' = si + 1
    /\ UNCHANGED <<pc, unique_jobs, sort_raised, output>>
    /\ UNCHANGED <<detailVars, crawlVars>>

\* One iteration of the section loop in which subprocess.run cannot start the
\* crawl process (the program or the cwd "craigslist_jobs" is missing): it
\* raises an OSError, which `except subprocess.CalledProcessError` at :150 does
\* not catch; nothing between there and the top of main() catches it either.
SectionNotStarted ==
    /\ pc = "collect"
    /\ si < NumSections
    /\ all_jobs' = all_jobs
    /\ section_end' = SectionEnd("not_started", Len(all_jobs') - Len(all_jobs))
    /\ pc' = "aborted"
    /\ UNCHANGED <<si, unique_jobs, sort_raised, output>>
    /\ UNCHANGED <<detailVars, crawlVars>>

\* The section loop is over (sections may be fewer than NumSections).
EndSections ==
    /\ pc = "collect"
    /\ pc' = "dedup"
    /\ UNCHANGED <<si, all_jobs, unique_jobs, sort_raised, output, section_end>>
    /\ UNCHANGED <<detailVars, crawlVars>>

RemoveDuplicates ==
    /\ pc = "dedup"
    /\ unique_jobs' = Dedup(all_jobs)
    /\ pc' = "sort"
    /\ UNCHANGED <<si, all_jobs, sort_raised, output, section_end>>
    /\ UNCHANGED <<detailVars, crawlVars>>

\* try: unique_jobs.sort(...) except: pass
SortByDate ==
    /\ pc = "sort"
    /\ LET r == ListSortReverse(unique_jobs)
       IN /\ unique_jobs' = r.list
          /\ sort_raised' = ~r.ok
    /\ pc' = "write"
    /\ UNCHANGED <<si, all_jobs, output, section_end>>
    /\ UNCHANGED <<detailVars, crawlVars>>

WriteOutput ==
    /\ pc = "write"
    /\ output' = unique_jobs
    /\ pc' = "done"
    /\ UNCHANGED <<si, all_jobs, unique_jobs, sort_raised, section_end>>
    /\ UNCHANGED <<detailVars, crawlVars>>

Next ==
    \/ RunSection
    \/ SectionFails
    \/ SectionNotStarted
    \/ EndSections
    \/ RemoveDuplicates
    \/ SortByDate
    \/ WriteOutput

Spec == Init /\ [][Next]_vars

\* ================================================================ claims
\* ---------------------------------------------------------------- Spec

\* C1: the aggregate result main() writes holds no two entries with the same
\* job_url (and neither does unique_jobs at any point of main).
C1_UniqueUrls ==
    /\ \A i, j \in 1..Len(output) :
          i # j => output[i].job_url # output[j].job_url
    /\ \A i, j \in 1..Len(unique_jobs) :
          i # j => unique_jobs[i].job_url # unique_jobs[j].job_url

\* C1 witness: the run is over, the sections returned a url more than once and
\* the result still holds several entries.
C1_Witness ==
    /\ pc = "done"
    /\ Len(output) >= 2
    /\ Len(all_jobs) > Len(output)

FirstIndex(u) ==
    CHOOSE i \in 1..Len(all_jobs) :
        /\ all_jobs[i].job_url = u
        /\ \A j \in 1..(i - 1) : all_jobs[j].job_url # u

\* C2: for every url the sections returned, the written result holds exactly
\* one entry with that url, and it is the record that comes first in the
\* concatenation of the section results, also after the sort.
C2_FirstOccurrenceKept ==
    pc = "done" =>
        \A u \in SeenUrls(all_jobs) :
            \E k \in 1..Len(output) :
                /\ output[k] = all_jobs[FirstIndex(u)]
                /\ \A k2 \in 1..Len(output) : output[k2].job_url = u => k2 = k

\* C2 witness: a url came back twice with two different records, and the sort
\* moved entries of the deduplicated list.
C2_Witness ==
    /\ pc = "done"
    /\ \E i, j \in 1..Len(all_jobs) :
          /\ i < j
          /\ all_jobs[i].job_url = all_jobs[j].job_url
          /\ all_jobs[i] # all_jobs[j]
    /\ output # Dedup(all_jobs)

\* C3 (as claimed): the written result is ordered descending by posted_date
\* and every entry with a null posted_date comes after all dated entries.
C3_SortedNullsLast ==
    pc = "done" =>
        \A i, j \in 1..Len(output) :
            i < j =>
                /\ output[i].posted_date.none => output[j].posted_date.none
                /\ (~output[i].posted_date.none /\ ~output[j].posted_date.none)
                      => output[i].posted_date.rank >= output[j].posted_date.rank

\* C4 (as claimed): when the sort raised, the written result is exactly the
\* deduplicated sequence in insertion order.
C4_FallbackKeepsInsertionOrder ==
    (pc = "done" /\ sort_raised) => output = Dedup(all_jobs)

\* ----------------------------------------------------------- SpecCrawl
\* C5 (as claimed): with max_jobs > 0 neither the listings emitted for the
\* section nor the detail fetches issued over all its result pages exceed
\* max_jobs.
C5_SectionCeiling ==
    spider.max_jobs > 0 =>
        /\ Len(items) <= spider.max_jobs
        /\ issued <= spider.max_jobs

Min(a, b) == IF a < b THEN a ELSE b

\* Rows were enumerated on the last page parse handled (it was neither blocked
\* nor a non-200 response).
PageEnumerated == last_page.outcome \in {"ok", "empty"}

\* C6 (as claimed): for a page with n rows parse issues exactly min(n, max_jobs)
\* detail fetches when max_jobs > 0 and n when max_jobs = 0, whatever the rows
\* hold.
C6_FetchesPerPage ==
    PageEnumerated =>
        /\ spider.max_jobs > 0 =>
              last_page.issued = Min(Len(last_page.has_url), spider.max_jobs)
        /\ spider.max_jobs = 0 => last_page.issued = Len(last_page.has_url)

\* C6 (amended): parse issues one detail fetch for each row that has a url
\* among the first min(n, max_jobs) rows when max_jobs > 0, and among all n
\* rows when max_jobs = 0.
C6_FetchesPerPageWithUrl ==
    PageEnumerated =>
        /\ spider.max_jobs > 0 =>
              last_page.issued =
                  Cardinality({r \in 1..Min(Len(last_page.has_url), spider.max_jobs) :
                                  last_page.has_url[r]})
        /\ spider.max_jobs = 0 =>
              last_page.issued =
                  Cardinality({r \in 1..Len(last_page.has_url) : last_page.has_url[r]})

\* C6 witness: a page with more rows than max_jobs, every row with a url, for
\* which parse issued exactly max_jobs detail fetches.
C6_Witness ==
    /\ last_page.outcome = "ok"
    /\ spider.max_jobs > 0
    /\ Len(last_page.has_url) > spider.max_jobs
    /\ \A r \in 1..Len(last_page.has_url) : last_page.has_url[r]
    /\ last_page.issued = spider.max_jobs

\* ---------------------------------------------------------- SpecDetail
Emitted == result.verdict = "emitted"

\* The candidate reached the recency stage: it was not turned away as blocked
\* or by the keyword stage.
ReachedRecency == result.verdict \in {"date", "location", "emitted"}

RecencyAccepts ==
    \/ response.posted_date.kind \in {"none", "text"}
    \/ response.posted_date.t >= now - spider.days

\* C7 (as claimed): an emitted listing's lower-cased title immediately followed
\* by its description contains a keyword when keywords are set, and its
\* lower-cased emitted location contains an allowed location when locations
\* are set.
C7_EmittedMatchesFilters ==
    Emitted =>
        /\ spider.keywords # <<>> =>
              \E i \in 1..Len(spider.keywords) :
                  Contains(Lower(result.items[1].title \o response.description),
                           spider.keywords[i])
        /\ spider.locations # <<>> =>
              \E i \in 1..Len(spider.locations) :
                  Contains(Lower(result.items[1].location), spider.locations[i])

\* C7 (amended): the text searched for keywords is the title, one space, and
\* the description; the location part is as claimed.
C7_EmittedMatchesFiltersSpaced ==
    Emitted =>
        /\ spider.keywords # <<>> =>
              \E i \in 1..Len(spider.keywords) :
                  Contains(Lower(result.items[1].title \o <<" ">> \o response.description),
                           spider.keywords[i])
        /\ spider.locations # <<>> =>
              \E i \in 1..Len(spider.locations) :
                  Contains(Lower(result.items[1].location), spider.locations[i])

\* C7 witness: a listing is emitted with both filters enabled.
C7_Witness ==
    /\ Emitted
    /\ spider.keywords # <<>>
    /\ spider.locations # <<>>

\* C8: a candidate that reaches the recency stage passes it exactly when its
\* posted date is absent, unparsable, or not older than now - days; an emitted
\* listing with a parsable date is never older than that.
C8_RecencyStage ==
    /\ ReachedRecency => ((result.verdict # "date") <=> RecencyAccepts)
    /\ (Emitted /\ response.posted_date.kind = "iso") =>
          response.posted_date.t >= now - spider.days

\* C8 witness: days=1 and a listing dated more than a week back is turned away
\* by the recency stage.
C8_Witness ==
    /\ result.verdict = "date"
    /\ spider.days = 1
    /\ response.posted_date.t < now - 7

\* A candidate was built: the response was handled and passed the status and
\* block check.
CandidateBuilt == result.verdict \notin {"pending", "blocked"}

\* C10 (as claimed): with no keywords and no allowed locations every candidate
\* is emitted.
C10_UnfilteredAllEmitted ==
    (CandidateBuilt /\ spider.keywords = <<>> /\ spider.locations = <<>>) => Emitted

\* C10 (amended): with no keywords and no allowed locations no candidate is
\* rejected by the keyword or location stage; it is emitted exactly when the
\* recency stage accepts it.
C10_UnfilteredOnlyRecency ==
    (CandidateBuilt /\ spider.keywords = <<>> /\ spider.locations = <<>>) =>
        /\ result.verdict \in {"emitted", "date"}
        /\ Emitted <=> RecencyAccepts

\* C10 witness: with both filters off a candidate with a description is emitted.
C10_Witness ==
    /\ Emitted
    /\ spider.keywords = <<>>
    /\ spider.locations = <<>>
    /\ response.description # <<>>

\* ----------------------------------------------------------- SpecShort
IsPrefix(p, s) == Len(p) <= Len(s) /\ SubSeq(s, 1, Len(p)) = p

\* p, a proper prefix of s, stops inside a word of s.
EndsMidWord(p, s) ==
    /\ Len(p) > 0
    /\ Len(p) < Len(s)
    /\ p[Len(p)] # " "
    /\ s[Len(p) + 1] # " "

\* C9 (as claimed): short_description is a prefix of the description, equal to
\* it up to 200 characters, and otherwise at most 200 characters long and not
\* ending inside a word.
C9_ShortDescription ==
    Emitted =>
        LET d == response.description
            sd == result.items[1].short_description
        IN /\ IsPrefix(sd, d)
           /\ Len(d) <= 200 => sd = d
           /\ Len(d) > 200 => (Len(sd) <= 200 /\ ~EndsMidWord(sd, d))

\* ------------------------------------------------ Spec: section failures
\* The last section's crawl failed in one of the three ways.
SectionFailed == section_end.outcome \in CaughtFailures \cup {"not_started"}

\* C11 (as claimed): whichever way a section's crawl fails, the section adds no
\* listing and main() is not left: the loop goes on to the remaining sections,
\* and when they give nothing more the run reaches its write and writes the
\* listings the other sections returned.
C11_SectionFailureContained ==
    SectionFailed =>
        /\ section_end.n = 0
        /\ pc # "aborted"
        /\ pc = "done" => SeenUrls(output) = SeenUrls(all_jobs)

\* ------------------------------------------- SpecCrawl: failed pages
\* The step in which parse handles a result page that is not status 200 or
\* holds the block signature (result pages are parsed in increasing order).
BlockedPageStep ==
    /\ last_page'.page # last_page.page
    /\ last_page'.outcome = "blocked"

\* C12: a non-200 or blocked result page makes parse issue no detail fetch and
\* request no further result page; the listings already emitted stay in the
\* feed and the detail fetches of earlier pages that are still pending stay
\* pending, so they are still served. No step ever takes a listing out of the
\* feed.
C12_BlockedPageStopsPagination ==
    [][/\ IsPrefix(items, items')
       /\ BlockedPageStep =>
             /\ issued' = issued
             /\ last_page'.issued = 0
             /\ ~last_page'.followed
             /\ \A q \in pending' : q.kind = "detail"
             /\ Details(pending') = Details(pending)
             /\ items' = items]_vars

\* C12 witness: the second result page was blocked while a listing of the
\* first page was already in the feed and the detail fetch of another was
\* still pending.
C12_Witness ==
    /\ last_page.outcome = "blocked"
    /\ last_page.page = 2
    /\ items # <<>>
    /\ \E q \in pending : q.kind = "detail" /\ q.page = 1

\* ------------------------------------------ SpecCrawl: order of the feed
\* Listing a = (page, row) is discovered before listing b.
DiscoveredBefore(a, b) == a[1] < b[1] \/ (a[1] = b[1] /\ a[2] < b[2])

\* C13 (as claimed): the feed of a section crawl is in discovery order, by
\* result page and then by row, whichever pending request is served next.
C13_DiscoveryOrder ==
    \A i, j \in 1..Len(items) :
        i < j => DiscoveredBefore(items[i], items[j])

\* ------------------------------------- SpecCrawl: blocked detail pages
\* Some part of the page's text holds "blocked" in any case.
HoldsBlocked(resp) ==
    \E part \in {resp.titletextonly, resp.postingtitle, resp.description, resp.other} :
        Contains(Lower(part), s_blocked)

\* The candidate of a detail response would pass the three filter stages.
PassesStages(resp) ==
    /\ KeywordStage(spider, ResolveTitle(resp), resp.description)
    /\ IsJobRecent(spider, now, resp.posted_date)
    /\ LocationStage(spider, OverrideLocation(resp.meta.location, resp.description))

\* A pending detail request leaves the engine in this step.
DetailServed == \E q \in Details(pending) : q \notin pending'

\* C14: a detail page with status 200 whose text holds "blocked" in any case,
\* in the description or elsewhere, yields no listing: the feed is as before;
\* only that request leaves the engine, so the other pending detail and
\* result-page requests are still served.
C14_BlockedDetailYieldsNothing ==
    [][(DetailServed /\ response'.status = 200 /\ HoldsBlocked(response')) =>
          /\ result'.items = <<>>
          /\ items' = items
          /\ \E q \in Details(pending) : pending' = pending \ {q}
          /\ UNCHANGED <<issued, rows_seen, last_page>>]_vars

\* C14 witness: a detail page whose description says "Blocked" and names a
\* keyword was dropped although its candidate passes every stage, while another
\* detail request and the next result page are still pending.
C14_Witness ==
    /\ response.status = 200
    /\ Contains(Lower(response.description), s_blocked)
    /\ ~Contains(response.description, s_blocked)
    /\ PassesStages(response)
    /\ result.verdict = "blocked"
    /\ \E q \in pending : q.kind = "detail"
    /\ \E q \in pending : q.kind = "list"

====
